---- MODULE Spec2Model ----
(***************************************************************************)
(* TorchDynamicShardInferenceEngine (src/exo/inference/torch/              *)
(* pt_inference.py) as a state machine.                                    *)
(*                                                                         *)
(* Two threads act on the engine: the asyncio event loop, which runs the   *)
(* coroutines encode / decode / sample / infer_tensor / ensure_shard from  *)
(* one await to the next as one atomic step each, and the worker thread of *)
(* ThreadPoolExecutor(max_workers=1), which takes work items off the       *)
(* executor's FIFO queue, runs them and resolves their futures.            *)
(* The collaborators (downloader, config loader, tokenizer, model, weight  *)
(* loader, sampling primitive) either return or raise: a nondeterministic  *)
(* choice at the step where they are called.                               *)
(***************************************************************************)
EXTENDS Integers, Sequences, FiniteSets, TLC

\* ---------------------------------------------------------------- bounds
\* Calls made on one engine when calls may overlap (Spec).
MaxCalls == 2
\* Calls made on one engine when each call is awaited before the next (SeqSpec).
MaxSeqCalls == 3
\* Calls made on one engine where the caller may stop waiting (AbandonSpec).
MaxAbandonCalls == 2
\* Calls made on one engine when calls may overlap and every call is followed
\* to its end (FairSpec).
MaxFairCalls == 2
\* Longest text given to encode.
MaxLen == 2

\* ------------------------------------------------------------- constants
\* Mutant: a pool of two workers.
TwoWorkers == 1 + 1
\* ThreadPoolExecutor(max_workers=1)
max_workers == 1
\* TEMP = 0.6, in tenths; TOP_K = 25
TEMP == 6
TOP_K == 25

\* Python's None, and a present value, as a sequence of length 0 or 1.
None == << >>
Some(x) == << x >>
Get(o) == o[1]

\* Shard descriptors: value objects compared with ==.
D1 == [model_id |-> "llama", start_layer |-> 0, end_layer |-> 1, n_layers |-> 4]
D2 == [model_id |-> "llama", start_layer |-> 2, end_layer |-> 3, n_layers |-> 4]
Shards == {D1, D2}

\* input_data of infer_tensor: a numpy array, by its shape and its content.
TokenInput(t) == [shape |-> <<1, 1>>, data |-> t]
HiddenInput == [shape |-> <<1, 1, 1>>, data |-> 5]
BadInputs == {[shape |-> <<1, 2>>, data |-> 7], [shape |-> <<1, 1, 1, 1>>, data |-> 7]}
Tokens == {7, 8}
RequestIds == {"", "r1"}

\* prompt of encode: a text, as the sequence of its characters.
Chars == {1, 2}
Texts == UNION {[1..n -> Chars] : n \in 0..MaxLen}
Prompt(t) == [text |-> t]
\* tokens of decode: a rank-1 array of token ids. `of` is history: the text
\* whose encode returned this array (None: the array has another origin).
TokenArray(d, o) == [shape |-> <<Len(d)>>, data |-> d, of |-> o]
\* x, temp and top_k of sample: logits over `vocab` entries, the temperature in
\* tenths, and k.
SampleArgs(v, t, k) == [vocab |-> v, temp |-> t, top_k |-> k]
SampleInputs == {SampleArgs(32, TEMP, TOP_K), SampleArgs(32, 0, TOP_K), SampleArgs(16, TEMP, TOP_K)}

Ops == {"encode", "decode", "sample", "infer_tensor", "ensure_shard"}

VARIABLES
  shard,               \* self.shard: None or Some(descriptor)
  tokenizer,           \* self.tokenizer: None (attribute not set) or Some([desc])
  sharded_model,       \* self.sharded_model: None (not set) or Some([desc, obj])
  weighted,            \* model objects load_model_weights_torchtune has filled
  request_id,          \* self.request_id: None or Some(string)
  past_tokens,         \* self.past_tokens: None or Some(sequence of token ids)
  use_llama_tokenizer, \* self.use_llama_tokenizer (environment, fixed at construction)
  queue,               \* the executor's work queue (FIFO)
  running,             \* work items a worker thread is executing
  nworkers,            \* live worker threads of the executor
  calls,               \* the coroutines: one record per call made so far, in call order
  fed                  \* history: the tokens of the (1,1) inputs whose infer_tensor call
                       \* got past ensure_shard, in that order

vars == <<shard, tokenizer, sharded_model, weighted, request_id, past_tokens,
          use_llama_tokenizer, queue, running, nworkers, calls, fed>>

shardState == <<shard, tokenizer, sharded_model, weighted>>

\* ------------------------------------------------------------- requests
InferInputs == {TokenInput(t) : t \in Tokens} \cup {HiddenInput} \cup BadInputs

Request(o, d, x, r) == [op |-> o, shard |-> d, input |-> x, rid |-> r]

\* Every call a client can make: the public operations with their arguments.
AllRequests ==
  {Request("sample", None, Some(a), "") : a \in SampleInputs}
  \cup {Request("encode", Some(d), Some(Prompt(<<1>>)), "") : d \in Shards}
  \cup {Request("decode", Some(d), Some(TokenArray(<<11>>, None)), "") : d \in Shards}
  \cup {Request("ensure_shard", Some(d), None, "") : d \in Shards}
  \cup {Request("infer_tensor", Some(d), Some(x), r) : d \in Shards, x \in InferInputs, r \in RequestIds}

\* The calls made where calls overlap: every operation, both descriptors, a token
\* step and a hidden-state step.
OverlapRequests ==
  {Request("sample", None, Some(SampleArgs(32, TEMP, TOP_K)), ""),
   Request("encode", Some(D1), Some(Prompt(<<1>>)), ""),
   Request("decode", Some(D1), Some(TokenArray(<<11>>, None)), "")}
  \cup {Request("ensure_shard", Some(d), None, "") : d \in Shards}
  \cup {Request("infer_tensor", Some(D1), Some(x), "r1") : x \in {TokenInput(7), HiddenInput}}

\* The calls followed to their end: the operations that use the worker.
FairRequests ==
  {Request("sample", None, Some(SampleArgs(32, TEMP, TOP_K)), ""),
   Request("encode", Some(D1), Some(Prompt(<<1>>)), ""),
   Request("decode", Some(D1), Some(TokenArray(<<11>>, None)), ""),
   Request("infer_tensor", Some(D1), Some(TokenInput(7)), "r1")}

\* The calls around a round trip: encode of every text, and the operations that
\* load, reload or fail to load a shard before it.
TripRequests ==
  {Request("encode", Some(d), Some(Prompt(t)), "") : d \in Shards, t \in Texts}
  \cup {Request("ensure_shard", Some(d), None, "") : d \in Shards}
  \cup {Request("infer_tensor", Some(D1), Some(TokenInput(7)), "r1"),
        Request("sample", None, Some(SampleArgs(32, TEMP, TOP_K)), "")}

\* ------------------------------------------------------------- outcomes
\* What an awaited operation ends in: a value, or an exception raised by the
\* operation of call `by`.
\* `data` is the content of a returned text, list or array (a sequence).
OkData(v, d) == [ok |-> TRUE, val |-> v, by |-> 0, data |-> d]
Ok(v) == OkData(v, << >>)
Err(e, c) == [ok |-> FALSE, val |-> e, by |-> c, data |-> << >>]

\* A coroutine at its start.
NewCall(req, pre) ==
  [op |-> req.op, shard |-> req.shard, input |-> req.input, rid |-> req.rid,
   pc |-> "start", fut |-> None, result |-> None,
   hidden_state |-> None,        \* infer_tensor's local hidden_state
   passed |-> FALSE,             \* the await of ensure_shard has returned
   pre |-> pre,                  \* Some(shard state when the call was made), kept for
                                 \* a call made while no other call is in flight
   work |-> [dl |-> 0, tok |-> 0, ctor |-> 0, wts |-> 0],  \* load steps this call ran
   acc |-> None,                 \* self.past_tokens as this call's accumulation left it
   bound |-> None,               \* functools.partial(self.tokenizer.<op>, arg) as built
   gen |-> None,                 \* the model generate() was called on, and its arguments
   seen |-> None,                \* Some(self.past_tokens) once the forward pass has started
   model_out |-> "",             \* what generate() returned: "hs", "logits" or "raise"
   sampled |-> FALSE]            \* infer_wrapper called self.sample

\* A coroutine that ended, with no work item of its own left with a worker, and
\* whose caller has gone on to make another call.
Gone == [NewCall(Request("", None, None, ""), None) EXCEPT !.pc = "gone"]
Forget(cs, busy) ==
  [i \in DOMAIN cs |->
     IF cs[i].pc \in {"done", "failed"} /\ \A it \in busy : it.call # i THEN Gone ELSE cs[i]]

Finish(cs, c, outcome) ==
  [cs EXCEPT ![c].pc = IF outcome.ok THEN "done" ELSE "failed",
             ![c].result = Some(outcome), ![c].fut = None]

\* --------------------------------------------------------- the executor
\* ThreadPoolExecutor.submit: the work item joins the queue; a worker thread is
\* spawned when none is idle and fewer than max_workers exist.
Spawn(n, busy) == IF busy >= n /\ n < max_workers THEN n + 1 ELSE n

\* Mutant: the worker thread dies with the work item's exception.
WorkerDiesOnError(n, outcome) == IF outcome.ok THEN n ELSE n - 1
\* The worker loop after a work item ended: the exception, if any, went to the
\* item's future, and the thread goes on to the next item.
AfterTask(n, outcome) == n

\* Future.set_result / set_exception of the work item's own future.
Deliver(cs, item, outcome) == [cs EXCEPT ![item.call].fut = Some(outcome)]

\* ------------------------------------------------------- pure functions
\* self.request_id = request_id if not self.request_id else self.request_id
Falsy(o) == o = None \/ o = Some("")
RecordRequestId(cur, rid) == IF Falsy(cur) THEN Some(rid) ELSE cur

\* Mutant: only the first two dimensions are looked at.
IsTokenShapeLoose(x) == x.shape[1] = 1 /\ x.shape[2] = 1
\* input_data.shape == (1, 1)
IsTokenShape(x) == x.shape = <<1, 1>>
IsHiddenShape(x) == Len(x.shape) = 3

\* Mutant: a token equal to the last accumulated one is taken for a repeat and
\* not appended.
AccumulateDedup(past, x) ==
  IF past # None /\ Get(past)[Len(Get(past))] = x.data THEN past
  ELSE IF past # None THEN Some(Get(past) \o <<x.data>>) ELSE Some(<<x.data>>)
\* Mutant: the new batch replaces the accumulated sequence.
AccumulateOverwrite(past, x) == Some(<<x.data>>)
\* torch.cat((self.past_tokens, input_data), dim=-1), or input_data.clone()
Accumulate(past, x) == IF past # None THEN Some(Get(past) \o <<x.data>>) ELSE Some(<<x.data>>)

\* Mutant: a step that is not a token step resets the accumulated sequence.
UpdateTokensResetting(past, x) == IF IsTokenShape(x) THEN Accumulate(past, x) ELSE None
\* self.past_tokens after the shape dispatch of infer_tensor
UpdateTokens(past, x) == IF IsTokenShape(x) THEN Accumulate(past, x) ELSE past

\* the local hidden_state after the shape dispatch of infer_tensor
HiddenOf(x) == IF ~IsTokenShape(x) /\ IsHiddenShape(x) THEN Some(x.data) ELSE None

\* tokens=self.past_tokens if hidden_state is not None else None
GenTokens(past, hidden) == IF hidden # None THEN past ELSE None

\* Mutant: the sampler's work submitted to the executor from the worker thread,
\* which waits for its result.
SampleCallSubmitted == [kind |-> "future"]
\* self.sample(model_logits, TEMP, TOP_K) called without await from the worker
\* thread: an un-run coroutine object, nothing submitted.
SampleCall == [kind |-> "coroutine"]
\* The worker thread has to wait for x: the result of a work item of its own
\* executor.
WaitsFor(x) == x.kind = "future"
\* token.numpy(force=True)
NumpyOf(x, c) == IF x.kind = "tensor" THEN Ok("token") ELSE Err("AttributeError:numpy", c)

\* The hidden state an interior shard's generate() returns, by its content.
ModelHidden == <<9>>
\* infer_wrapper gets as far as the call of self.sample
SamplerInvoked(g) == g = "logits"

\* infer_wrapper after generate() gave g
InferResult(g, c) ==
  CASE g = "hs" -> OkData("hidden_state", ModelHidden)
    [] g = "logits" -> NumpyOf(SampleCall, c)
    [] OTHER -> Err("InferenceFailure", c)

\* The tokenizer loaded for a descriptor: a stub whose decode inverts its encode.
\* Its token ids start at a base that differs between descriptors.
VocabBase(tk) == 10 + tk.desc.start_layer
TokenizerEncode(tk, text) == [i \in 1..Len(text) |-> text[i] + VocabBase(tk)]
TokenizerDecode(tk, ids) == [i \in 1..Len(ids) |-> ids[i] - VocabBase(tk)]

\* Mutant: the array without its last element.
ToListDroppingLast(x) == SubSeq(x.data, 1, Len(x.data) - 1)
\* tokens.tolist()
ToList(x) == x.data
\* if isinstance(tokens, list): tokens = torch.tensor(tokens)
TensorIfList(out) == IF out.ok /\ out.val = "list" THEN [out EXCEPT !.val = "tensor"] ELSE out

\* Mutant: the descriptors compared by identity, never equal.
SameShardByIdentity(cur, d) == FALSE
\* self.shard == shard
SameShard(cur, d) == cur = d

\* ---------------------------------------------------------- event loop
Item(c, k) == [call |-> c, kind |-> k]

\* loop.run_in_executor(self.executor, fn): the unprimed queue and worker count
\* with the work item submitted.
Submitted(item) == Append(queue, item)
Spawned == Spawn(nworkers, Cardinality(running))

\* The code that follows `await self.ensure_shard(shard)` in call c, up to the
\* call's next await or its end (cs: the calls with c's own bookkeeping done).
AfterEnsure(c, cs) ==
  LET op == cs[c].op
      ps == [cs EXCEPT ![c].passed = TRUE]
  IN
  CASE op = "ensure_shard" ->
         /\ calls' = Finish(ps, c, Ok("None"))
         /\ UNCHANGED <<queue, nworkers, request_id, past_tokens, fed>>
    [] op \in {"encode", "decode"} ->
         \* functools.partial(self.tokenizer.encode, prompt): the attribute is read here
         IF tokenizer = None
         THEN /\ calls' = Finish(ps, c, Err("AttributeError:tokenizer", c))
              /\ UNCHANGED <<queue, nworkers, request_id, past_tokens, fed>>
         ELSE /\ calls' = [ps EXCEPT
                              ![c].pc = "exec",
                              ![c].bound = Some([tok |-> Get(tokenizer),
                                                 arg |-> IF op = "encode"
                                                         THEN Get(cs[c].input).text
                                                         ELSE ToList(Get(cs[c].input))])]
              /\ queue' = Submitted(Item(c, op))
              /\ nworkers' = Spawned
              /\ UNCHANGED <<request_id, past_tokens, fed>>
    [] OTHER ->  \* infer_tensor
         /\ request_id' = RecordRequestId(request_id, cs[c].rid)
         /\ past_tokens' = UpdateTokens(past_tokens, Get(cs[c].input))
         /\ calls' = [ps EXCEPT ![c].pc = "exec",
                                ![c].hidden_state = HiddenOf(Get(cs[c].input)),
                                ![c].acc = IF IsTokenShape(Get(cs[c].input))
                                           THEN past_tokens' ELSE None]
         /\ queue' = Submitted(Item(c, "infer"))
         /\ nworkers' = Spawned
         /\ fed' = IF Get(cs[c].input).shape = <<1, 1>>
                   THEN Append(fed, Get(cs[c].input).data) ELSE fed

\* No call is in flight.
Quiet == \A c \in 1..Len(calls) : calls[c].pc \in {"done", "failed", "gone"}

\* A client calls a public operation: the coroutine runs to its first await.
\* ensure_shard returns at once when self.shard == shard, and otherwise stores
\* the descriptor and awaits the downloader.
Call(req) ==
  LET c == Len(calls) + 1
      cs == Append(Forget(calls, running),
                   NewCall(req, IF Quiet THEN Some(<<shard, tokenizer, sharded_model>>) ELSE None))
  IN
  IF req.op = "sample"
  THEN /\ calls' = [cs EXCEPT ![c].pc = "exec"]
       /\ queue' = Submitted(Item(c, "sample"))
       /\ nworkers' = Spawned
       /\ UNCHANGED <<shardState, request_id, past_tokens, use_llama_tokenizer, running, fed>>
  ELSE IF SameShard(shard, req.shard)
  THEN /\ AfterEnsure(c, cs)
       /\ UNCHANGED <<shardState, use_llama_tokenizer, running>>
  ELSE /\ shard' = req.shard
       /\ calls' = [cs EXCEPT ![c].pc = "download", ![c].work.dl = @ + 1]
       /\ UNCHANGED <<tokenizer, sharded_model, weighted, request_id, past_tokens,
                      use_llama_tokenizer, queue, running, nworkers, fed>>

\* A load step of ensure_shard raised: the exception leaves ensure_shard and the
\* public operation that awaited it.
LoadFailed(c, e) ==
  /\ calls' = Finish(calls, c, Err(e, c))
  /\ UNCHANGED <<shardState, request_id, past_tokens, use_llama_tokenizer,
                 queue, running, nworkers, fed>>

\* self.tokenizer = ...; then the model construction is submitted.
TokenizerSet(c) ==
  /\ tokenizer' = Some([desc |-> Get(calls[c].shard)])
  /\ calls' = [calls EXCEPT ![c].pc = "construct", ![c].work.tok = @ + 1, ![c].work.ctor = @ + 1]
  /\ queue' = Submitted(Item(c, "construct"))
  /\ nworkers' = Spawned
  /\ UNCHANGED <<shard, sharded_model, weighted, request_id, past_tokens,
                 use_llama_tokenizer, running, fed>>

\* The downloader's ensure_shard returned or raised; then load_model_config and,
\* with USE_LLAMA_TOKENIZER, llama3_tokenizer run before the next await.
DownloadDone(c) ==
  /\ calls[c].pc = "download"
  /\ \/ LoadFailed(c, "ShardUnavailable")
     \/ LoadFailed(c, "ConfigError")
     \/ /\ use_llama_tokenizer
        /\ \/ LoadFailed(c, "TokenizerError")
           \/ TokenizerSet(c)
     \/ /\ ~use_llama_tokenizer
        /\ calls' = [calls EXCEPT ![c].pc = "resolve"]
        /\ UNCHANGED <<shardState, request_id, past_tokens, use_llama_tokenizer,
                       queue, running, nworkers, fed>>

\* await _resolve_tokenizer(model_path) returned or raised.
ResolveDone(c) ==
  /\ calls[c].pc = "resolve"
  /\ \/ LoadFailed(c, "TokenizerError")
     \/ TokenizerSet(c)

\* The future of the model construction is done: self.sharded_model = result,
\* and the weight loading is submitted with that model.
ConstructResumed(c) ==
  /\ calls[c].pc = "construct"
  /\ calls[c].fut # None
  /\ LET out == Get(calls[c].fut) IN
     IF out.ok
     THEN /\ sharded_model' = Some([desc |-> Get(calls[c].shard), obj |-> c])
          /\ calls' = [calls EXCEPT ![c].pc = "weights", ![c].fut = None, ![c].work.wts = @ + 1]
          /\ queue' = Submitted(Item(c, "weights"))
          /\ nworkers' = Spawned
          /\ UNCHANGED <<shard, tokenizer, weighted, request_id, past_tokens,
                         use_llama_tokenizer, running, fed>>
     ELSE /\ calls' = Finish(calls, c, out)
          /\ UNCHANGED <<shardState, request_id, past_tokens, use_llama_tokenizer,
                         queue, running, nworkers, fed>>

\* The future of the weight loading is done: ensure_shard returns to its caller.
WeightsResumed(c) ==
  /\ calls[c].pc = "weights"
  /\ calls[c].fut # None
  /\ LET out == Get(calls[c].fut) IN
     IF out.ok
     THEN /\ AfterEnsure(c, [calls EXCEPT ![c].fut = None])
          /\ UNCHANGED <<shardState, use_llama_tokenizer, running>>
     ELSE /\ calls' = Finish(calls, c, out)
          /\ UNCHANGED <<shardState, request_id, past_tokens, use_llama_tokenizer,
                         queue, running, nworkers, fed>>

\* The future of the operation's own work item is done: the call returns its
\* result (encode: a list as a tensor) or raises its exception.
ExecResumed(c) ==
  /\ calls[c].pc = "exec"
  /\ calls[c].fut # None
  /\ calls' = Finish(calls, c, IF calls[c].op = "encode" THEN TensorIfList(Get(calls[c].fut))
                                ELSE Get(calls[c].fut))
  /\ UNCHANGED <<shardState, request_id, past_tokens, use_llama_tokenizer,
                 queue, running, nworkers, fed>>

\* -------------------------------------------------------- worker thread
\* A worker thread takes the oldest work item. infer_wrapper reads
\* self.sharded_model and the arguments of generate() as it starts.
WorkerStart ==
  /\ queue # << >>
  /\ Cardinality(running) < nworkers
  /\ LET item == Head(queue)
         c == item.call
     IN
     /\ queue' = Tail(queue)
     /\ running' = running \cup {item}
     /\ calls' = IF item.kind = "infer"
                 THEN [calls EXCEPT
                         ![c].seen = Some(past_tokens),
                         ![c].gen = IF sharded_model = None THEN None
                                    ELSE Some([model |-> Get(sharded_model),
                                               loaded |-> Get(sharded_model).obj \in weighted,
                                               tokens |-> GenTokens(past_tokens, calls[c].hidden_state),
                                               hidden_state |-> calls[c].hidden_state])]
                 ELSE calls
  /\ UNCHANGED <<shardState, request_id, past_tokens, use_llama_tokenizer, nworkers, fed>>

\* What the collaborator run by a work item can end in.
TaskOutcomes(item) ==
  LET c == item.call IN
  CASE item.kind = "construct" -> {Ok("model"), Err("ModelError", c)}
    [] item.kind = "weights" -> {Ok("weights"), Err("WeightsError", c)}
    [] item.kind = "encode" ->
         {OkData("list", TokenizerEncode(Get(calls[c].bound).tok, Get(calls[c].bound).arg)),
          Err("TokenizationFailure", c)}
    [] item.kind = "decode" ->
         {OkData("text", TokenizerDecode(Get(calls[c].bound).tok, Get(calls[c].bound).arg)),
          Err("TokenizationFailure", c)}
    [] OTHER -> {Ok("token"), Err("SamplingFailure", c)}

\* The work item ends: its future gets the result or the exception.
WorkerFinish(item) ==
  /\ item \in running
  /\ item.kind # "infer"
  /\ \E out \in TaskOutcomes(item) :
       /\ calls' = Deliver(calls, item, out)
       /\ nworkers' = AfterTask(nworkers, out)
       /\ weighted' = IF item.kind = "weights" /\ out.ok
                      THEN weighted \cup {item.call} ELSE weighted
  /\ running' = running \ {item}
  /\ UNCHANGED <<shard, tokenizer, sharded_model, request_id, past_tokens,
                 use_llama_tokenizer, queue, fed>>

\* generate() of infer_wrapper returned a hidden state, returned logits, or
\* raised.
GenerateDone(item) ==
  /\ item \in running
  /\ item.kind = "infer"
  /\ LET c == item.call IN
     /\ calls[c].gen # None
     /\ calls[c].model_out = ""
     /\ \E g \in {"hs", "logits", "raise"} : calls' = [calls EXCEPT ![c].model_out = g]
  /\ UNCHANGED <<shardState, request_id, past_tokens, use_llama_tokenizer,
                 queue, running, nworkers, fed>>

\* infer_wrapper ends: self.sharded_model was missing, or the wrapper went on
\* from what generate() gave. A wrapper that has to wait for a work item of its
\* own executor does not end.
InferFinish(item) ==
  /\ item \in running
  /\ item.kind = "infer"
  /\ LET c == item.call
         g == calls[c].model_out
     IN
     /\ calls[c].gen = None \/ g # ""
     /\ ~(SamplerInvoked(g) /\ WaitsFor(SampleCall))
     /\ LET out == IF calls[c].gen = None THEN Err("AttributeError:sharded_model", c)
                   ELSE InferResult(g, c)
        IN /\ calls' = Deliver([calls EXCEPT ![c].sampled = SamplerInvoked(g)], item, out)
           /\ nworkers' = AfterTask(nworkers, out)
  /\ running' = running \ {item}
  /\ UNCHANGED <<shardState, request_id, past_tokens, use_llama_tokenizer, queue, fed>>

\* The caller of call c stops waiting: its task is cancelled, and CancelledError
\* is raised at the await where the coroutine is suspended. The future of a
\* work item still queued is cancelled with it and the worker skips the item;
\* an item a worker is executing runs to its end.
Abandon(c) ==
  /\ calls[c].pc \in {"download", "resolve", "construct", "weights", "exec"}
  /\ calls' = [calls EXCEPT ![c].pc = "failed",
                            ![c].result = Some(Err("CancelledError", c))]
  /\ queue' = SelectSeq(queue, LAMBDA it : it.call # c)
  /\ UNCHANGED <<shardState, request_id, past_tokens, use_llama_tokenizer,
                 running, nworkers, fed>>

\* ------------------------------------------------------- specifications
Init ==
  /\ shard = None
  /\ tokenizer = None
  /\ sharded_model = None
  /\ weighted = {}
  /\ request_id = None
  /\ past_tokens = None
  /\ use_llama_tokenizer \in BOOLEAN
  /\ queue = << >>
  /\ running = {}
  /\ nworkers = 0
  /\ calls = << >>
  /\ fed = << >>

Progress ==
  \/ \E c \in 1..Len(calls) : DownloadDone(c)
  \/ \E c \in 1..Len(calls) : ResolveDone(c)
  \/ \E c \in 1..Len(calls) : ConstructResumed(c)
  \/ \E c \in 1..Len(calls) : WeightsResumed(c)
  \/ \E c \in 1..Len(calls) : ExecResumed(c)
  \/ WorkerStart
  \/ \E item \in running : WorkerFinish(item)
  \/ \E item \in running : GenerateDone(item)
  \/ \E item \in running : InferFinish(item)

\* Calls may overlap: a client calls while earlier calls are suspended.
OverlappingCall == Len(calls) < MaxCalls /\ \E req \in OverlapRequests : Call(req)

\* Each call is awaited before the next is made.
SequentialCall == Len(calls) < MaxSeqCalls /\ Quiet /\ \E req \in AllRequests : Call(req)

Next == OverlappingCall \/ Progress

SeqNext == SequentialCall \/ Progress

Spec == Init /\ [][Next]_vars

SeqSpec == Init /\ [][SeqNext]_vars

\* Overlapping calls with an event loop that runs every coroutine that can
\* resume, a worker thread that runs, and collaborators that return or raise.
FairCall == Len(calls) < MaxFairCalls /\ \E req \in FairRequests : Call(req)

FairNext == FairCall \/ Progress

FairSpec == Init /\ [][FairNext]_vars /\ WF_vars(Progress)

\* The client decodes what the encode it has just awaited returned, with the
\* same descriptor.
DecodeReturned ==
  /\ Len(calls) < MaxSeqCalls /\ Quiet /\ calls # << >>
  /\ LET e == calls[Len(calls)] IN
     /\ e.op = "encode" /\ e.pc = "done"
     /\ Call(Request("decode", e.shard,
                     Some(TokenArray(Get(e.result).data, Some(Get(e.input).text))), ""))

TripCall == Len(calls) < MaxSeqCalls /\ Quiet /\ \E req \in TripRequests : Call(req)

TripNext == TripCall \/ DecodeReturned \/ Progress

TripSpec == Init /\ [][TripNext]_vars

\* Calls one after the other, where the caller may stop waiting for a call.
AbandonedCall == Len(calls) < MaxAbandonCalls /\ Quiet /\ \E req \in OverlapRequests : Call(req)

AbandonNext == AbandonedCall \/ Progress \/ \E c \in 1..Len(calls) : Abandon(c)

AbandonSpec == Init /\ [][AbandonNext]_vars

\* ================================================================ claims
Live == {c \in DOMAIN calls : calls[c].pc # "gone"}
Ended(c) == calls[c].pc \in {"done", "failed"}
\* The call ended with an exception of ensure_shard's load.
LoadFailure(c) == calls[c].pc = "failed" /\ ~calls[c].passed
HandleState == <<shard, tokenizer, sharded_model>>

\* C1: a call whose ensure_shard raised in a load step leaves the stored shard
\* descriptor, the tokenizer handle and the model handle as they were when the
\* call was made (calls made one after the other).
C1_FailedLoadLeavesShardState ==
  \A c \in Live : (LoadFailure(c) /\ calls[c].pre # None) => HandleState = Get(calls[c].pre)

\* C2: in every state the stored descriptor, the tokenizer and the model belong
\* to the same descriptor, and a published model has its weights: nothing is
\* stored before the load, and all three are for the stored descriptor after.
C2_ShardStateConsistent ==
  /\ shard = None => tokenizer = None /\ sharded_model = None
  /\ shard # None =>
       /\ tokenizer # None /\ Get(tokenizer).desc = Get(shard)
       /\ sharded_model # None /\ Get(sharded_model).desc = Get(shard)
       /\ Get(sharded_model).obj \in weighted

C4_ForwardArgumentsMatchMode ==
  \A c \in Live :
    calls[c].gen # None =>
      LET x == Get(calls[c].input)
          g == Get(calls[c].gen)
      IN /\ x.shape = <<1, 1>> =>
              g.tokens # None /\ g.tokens = calls[c].acc /\ g.hidden_state = None
         /\ Len(x.shape) = 3 =>
              g.hidden_state = Some(x.data) /\ g.tokens = None

\* C5: after N consecutive single-token infer_tensor calls that got past
\* ensure_shard, past_tokens holds exactly those N tokens in call order (None
\* before the first).
C5_TokensAccumulateInOrder ==
  past_tokens = IF fed = << >> THEN None ELSE Some(fed)

\* C5 witness: two single-token steps with different tokens have accumulated.
C5_Witness ==
  /\ Len(fed) >= 2 /\ fed[1] # fed[2]
  /\ past_tokens = Some(fed)

\* C6: a (1,1) input takes the token path, a rank-3 input the hidden-state
\* path, and an input of any other shape ends in an error: the model is not
\* called for it and the call does not return a result.
C6_ModeInferenceTotal ==
  \A c \in Live :
    (calls[c].op = "infer_tensor" /\ calls[c].passed) =>
      LET x == Get(calls[c].input) IN
      /\ x.shape = <<1, 1>> => calls[c].acc # None /\ calls[c].hidden_state = None
      /\ (x.shape # <<1, 1>> /\ Len(x.shape) = 3) =>
            calls[c].acc = None /\ calls[c].hidden_state = Some(x.data)
      /\ (x.shape # <<1, 1>> /\ Len(x.shape) # 3) =>
            /\ calls[c].gen = None /\ calls[c].model_out = ""
            /\ calls[c].pc # "done"
            /\ calls[c].fut # None => ~Get(calls[c].fut).ok

\* C7: when generate() returned logits, the call ends by returning the sampled
\* token.
C7_LogitsGiveSampledToken ==
  \A c \in Live :
    calls[c].model_out = "logits" =>
      /\ calls[c].fut # None => Get(calls[c].fut) = Ok("token")
      /\ Ended(c) => calls[c].result = Some(Ok("token"))

\* C8: the forward pass of a token step sees self.past_tokens exactly as the
\* call's own accumulation left it.
C8_ForwardSeesOwnAccumulation ==
  \A c \in Live :
    (calls[c].acc # None /\ calls[c].seen # None) => Get(calls[c].seen) = calls[c].acc

\* C9: at most one work item executes at a time, and work items start in the
\* order of their submission: a starting item is the oldest queued one, and a
\* submitted item joins the queue's end.
C9_OneWorkerInOrder ==
  /\ [](Cardinality(running) <= 1)
  /\ [][/\ (running' \ running # {}) =>
              (queue # << >> /\ running' \ running = {Head(queue)} /\ queue' = Tail(queue))
        /\ \/ queue' = queue
           \/ queue # << >> /\ queue' = Tail(queue)
           \/ Len(queue') = Len(queue) + 1 /\ SubSeq(queue', 1, Len(queue)) = queue]_vars

\* C9 witness: with one item executing, items of two other submissions wait.
C9_Witness ==
  /\ Cardinality(running) = 1
  /\ Len(queue) >= 1
  /\ \E item \in running : item.call # queue[1].call /\ item.kind # queue[1].kind

\* The outcome came from a work item (not from a step on the event loop).
TaskErrors ==
  {"ModelError", "WeightsError", "TokenizationFailure", "SamplingFailure",
   "InferenceFailure", "AttributeError:numpy", "AttributeError:sharded_model"}

\* C10: an exception raised in a work item reaches the call awaiting that item,
\* unchanged, and no other call; and the worker thread stays alive for the work
\* that follows.
C10_ExceptionToOwnCallerOnly ==
  /\ \A c \in Live :
       /\ calls[c].fut # None =>
            /\ Get(calls[c].fut).by \in {0, c}
            /\ calls[c].pc \in {"construct", "weights", "exec"}
       /\ (calls[c].pc = "failed" /\ Get(calls[c].result).val \in TaskErrors) =>
            Get(calls[c].result).by = c
  /\ (queue # << >> \/ running # {}) => nworkers >= 1

\* C10 witness: the first call's work item raised and the call got the
\* exception, and a call made later got the result of its own work item.
C10_Witness ==
  /\ Len(calls) >= 2
  /\ calls[1].op = "sample" /\ calls[1].pc = "failed"
  /\ calls[1].result = Some(Err("SamplingFailure", 1))
  /\ calls[2].op = "encode" /\ calls[2].pc = "done"
  /\ calls[2].result = Some(OkData("tensor", TokenizerEncode([desc |-> D1], <<1>>)))

\* The accumulated sequence as a sequence (None: nothing accumulated).
TokensOf(past) == IF past = None THEN << >> ELSE Get(past)
IsPrefix(s, t) == Len(s) <= Len(t) /\ SubSeq(t, 1, Len(s)) = s

\* C11: past_tokens is append-only: in every step of every operation the
\* sequence before the step is a prefix of the sequence after it, and once
\* set it is never None again.
C11_PastTokensAppendOnly ==
  [][/\ IsPrefix(TokensOf(past_tokens), TokensOf(past_tokens'))
     /\ past_tokens # None => past_tokens' # None]_vars

\* C11 witness: tokens accumulated under one descriptor are still there after
\* an ensure_shard that reloaded another descriptor.
C11_Witness ==
  \E c \in Live :
    /\ calls[c].op = "ensure_shard" /\ calls[c].pc = "done" /\ calls[c].work.wts = 1
    /\ calls[c].pre # None /\ Get(calls[c].pre)[1] # None
    /\ Get(calls[c].pre)[1] # calls[c].shard
    /\ past_tokens # None /\ Len(Get(past_tokens)) >= 2

\* C12: once a request id is recorded it never changes, whatever ids later
\* calls pass, an empty-string id included.
C12_RequestIdFirstWriteWins ==
  [][request_id # None => request_id' = request_id]_vars

\* The caller of call c stopped waiting for it.
Abandoned(c) == calls[c].pc = "failed" /\ Get(calls[c].result).val = "CancelledError"

\* C13: when the caller stopped waiting for a call during its load, after a
\* work item of the load was submitted, and the worker has completed that item,
\* the shard state of the requested descriptor is committed to the engine: its
\* descriptor, its tokenizer and its model are the stored ones.
C13_AbandonedLoadIsCommitted ==
  \A c \in Live :
    (/\ Abandoned(c) /\ ~calls[c].passed /\ calls[c].work.ctor = 1
     /\ calls[c].fut # None /\ Get(calls[c].fut).ok
     /\ c = Len(calls)) =>
      /\ shard = calls[c].shard
      /\ tokenizer = Some([desc |-> Get(calls[c].shard)])
      /\ sharded_model # None
      /\ Get(sharded_model).desc = Get(calls[c].shard)

\* C14: decode of what encode returned for a text, with the same descriptor and
\* a tokenizer whose decode inverts its encode, returns that text; both
\* tokenizer operations run as work items of the executor, and the decode does
\* not fail unless the tokenizer raises.
C14_DecodeInvertsEncode ==
  \A c \in Live :
    (calls[c].op = "decode" /\ Get(calls[c].input).of # None) =>
      LET text == Get(Get(calls[c].input).of) IN
      /\ calls[c].pc \in {"exec", "done", "failed"}
      /\ calls[c].bound # None
      /\ (calls[c].fut # None /\ Get(calls[c].fut).ok) => Get(calls[c].fut).data = text
      /\ calls[c].pc = "done" => calls[c].result = Some(OkData("text", text))
      /\ calls[c].pc = "failed" => calls[c].result = Some(Err("TokenizationFailure", c))

\* C14 witness: the round trip of a two-character text has returned.
C14_Witness ==
  \E c \in Live :
    /\ calls[c].op = "decode" /\ calls[c].pc = "done"
    /\ Get(calls[c].input).of = Some(<<1, 2>>)
    /\ Get(calls[c].input).data # <<1, 2>>
    /\ calls[c].result = Some(OkData("text", <<1, 2>>))

\* Arguments of sample the sampler has to reject.
InvalidSampleArgs(a) == a.top_k > a.vocab \/ a.temp <= 0

\* C15: sample with a k above the vocabulary size or with a non-positive
\* temperature ends in an error and never returns a token, whatever the
\* sampling primitive does with such arguments.
C15_InvalidSamplingRejected ==
  \A c \in Live :
    (calls[c].op = "sample" /\ InvalidSampleArgs(Get(calls[c].input))) =>
      /\ calls[c].pc # "done"
      /\ calls[c].fut # None => ~Get(calls[c].fut).ok

\* C16: the forward pass of a call made with descriptor D runs on a model built
\* for D whose weights are loaded, and the tokenizer operation of an encode or
\* decode made with D runs on the tokenizer of D, however the calls overlap.
C16_WorkUsesLoadedShard ==
  \A c \in Live :
    /\ calls[c].seen # None =>
         /\ calls[c].gen # None
         /\ Get(calls[c].gen).model.desc = Get(calls[c].shard)
         /\ Get(calls[c].gen).loaded
    /\ (calls[c].passed /\ calls[c].op \in {"encode", "decode"}) =>
         /\ calls[c].bound # None
         /\ Get(calls[c].bound).tok.desc = Get(calls[c].shard)

\* C17: when a call with descriptor D has failed in ensure_shard's load, the
\* next call with descriptor D calls the downloader again.
C17_FailedLoadIsRetried ==
  [][\A c \in DOMAIN calls :
       (/\ Len(calls') = Len(calls) + 1 /\ c = Len(calls)
        /\ LoadFailure(c)
        /\ calls'[c + 1].op # "sample"
        /\ calls'[c + 1].shard = calls[c].shard)
       => calls'[c + 1].work.dl = 1]_vars

\* Call c of cs is an infer_tensor step with a rank-3 input.
HiddenStep(cs, c) == cs[c].op = "infer_tensor" /\ Len(Get(cs[c].input).shape) = 3

\* C18: no step of an infer_tensor call with a rank-3 input changes
\* past_tokens (calls made one after the other: the steps from the call to its
\* end), the call accumulates nothing, and a call whose generate() returned a
\* hidden state returns that hidden state, the sampler not being called.
C18_HiddenStepLeavesTokens ==
  /\ [][(calls' # << >> /\ HiddenStep(calls', Len(calls'))) => past_tokens' = past_tokens]_vars
  /\ [](\A c \in Live :
          /\ HiddenStep(calls, c) => calls[c].acc = None
          /\ (calls[c].op = "infer_tensor" /\ calls[c].model_out = "hs") =>
               /\ calls[c].fut # None =>
                    /\ ~calls[c].sampled
                    /\ Get(calls[c].fut) = OkData("hidden_state", ModelHidden)
               /\ Ended(c) => calls[c].result = Some(OkData("hidden_state", ModelHidden)))

\* C18 witness: a hidden-state step returned the model's hidden state with
\* tokens accumulated before it still in place.
C18_Witness ==
  \E c \in Live :
    /\ HiddenStep(calls, c) /\ calls[c].pc = "done"
    /\ calls[c].result = Some(OkData("hidden_state", ModelHidden))
    /\ Get(calls[c].gen).hidden_state # Some(ModelHidden[1])
    /\ past_tokens = Some(fed) /\ Len(fed) >= 1

\* C19: every call made ends with a result or an error, and a work item a
\* worker is executing never waits: its next step can always be taken.
C19_EveryCallCompletes ==
  /\ \A c \in 1..MaxFairCalls :
       [](Len(calls) >= c => <>(Len(calls) >= c /\ calls[c].pc \in {"done", "failed", "gone"}))
  /\ [](\A item \in running :
          ENABLED (WorkerFinish(item) \/ GenerateDone(item) \/ InferFinish(item)))

\* C19 witness: infer_wrapper got logits from generate() and went on to the
\* sampler call on the worker thread, with another call's work item queued
\* behind it, and its call ended.
C19_Witness ==
  \E c \in Live :
    /\ calls[c].op = "infer_tensor" /\ calls[c].sampled /\ Ended(c)
    /\ \E d \in Live : d # c /\ calls[d].pc = "exec" /\ calls[d].fut = None

\* A token step that got past ensure_shard.
TokenStep(c) == calls[c].op = "infer_tensor" /\ calls[c].passed /\ calls[c].acc # None

\* C20: (calls made one after the other) the token of a token step is appended
\* before the forward pass is submitted and stays when the forward pass or the
\* sampling fails: the step in
\* which the call raises leaves past_tokens as it is, with that token at its
\* end; and every token step, a retry with the same token included, appends
\* its token to whatever is accumulated.
C20_AccumulationNotRolledBack ==
  [][\A c \in DOMAIN calls' :
       LET x == Get(calls'[c].input) IN
       /\ (c \in DOMAIN calls /\ TokenStep(c) /\ calls[c].pc = "exec" /\ calls'[c].pc = "failed") =>
            /\ past_tokens' = past_tokens
            /\ past_tokens' = calls[c].acc
            /\ Get(past_tokens')[Len(Get(past_tokens'))] = x.data
       /\ (calls'[c].op = "infer_tensor" /\ x.shape = <<1, 1>> /\ calls'[c].passed
           /\ (c \notin DOMAIN calls \/ ~calls[c].passed)) =>
            /\ calls'[c].pc = "exec"
            /\ queue' = Append(queue, Item(c, "infer"))
            /\ past_tokens' = Some(TokensOf(past_tokens) \o <<x.data>>)]_vars

\* C20 witness: a token step failed in its forward pass after the same token
\* had been accumulated before: the token is in past_tokens twice.
C20_Witness ==
  \E c \in Live :
    /\ TokenStep(c) /\ calls[c].pc = "failed"
    /\ Get(calls[c].result).val \in {"InferenceFailure", "AttributeError:numpy"}
    /\ past_tokens = Some(<<Get(calls[c].input).data, Get(calls[c].input).data>>)

====
